---- MODULE Spec2Model ----
(***************************************************************************)
(* fmpz_mpoly_search_monomials (src/mpoly/search_monomials.c) as a state   *)
(* machine.  One call is followed from entry to return, statement group by *)
(* statement group.                                                        *)
(*                                                                         *)
(* Monomials are one machine word long and ordered as naturals; the        *)
(* frontier arrays find, gind and hind are pointers into three heap        *)
(* blocks, fexp, gexp and hexp into three others, exactly as the code      *)
(* swaps them.  The headers of the two inner for loops (lines 149, 152 and *)
(* 170) carry a comma where C wants a semicolon; they are read as the      *)
(* three-clause loops they spell.                                          *)
(*                                                                         *)
(* Storage the code reads without having written it (malloc'ed words, the  *)
(* word in front of an array, the words behind b) holds an arbitrary       *)
(* Undefined behaviour.  An element of a malloc'ed array that was never    *)
(* written is Indeterminate until its first read, which fixes it to any    *)
(* value of Garb.  A word read behind the end of b is any value of Mono.   *)
(* A store in front of a malloc'ed block and a second free of a block      *)
(* hand the process to the allocator's bookkeeping, which is no part of    *)
(* this source: the call is then at "undefined" and is followed no         *)
(* further.  A false assert aborts the process in a build that compiles    *)
(* assertions in and is skipped in one that does not; both are followed.   *)
(***************************************************************************)
EXTENDS Integers, FiniteSets, Sequences, TLC

\* longest input sequence
MaxLen == 2
\* largest exponent word of an input monomial
MaxExp == 2
\* largest value an indeterminate index word is read as
GarbMax == 3
\* most main-loop bodies followed in one call
MaxIter == 3

VARIABLES
    a, a_len, b, b_len, lower, upper,   \* the arguments
    pc,                                 \* position in the function body
    heap,                               \* allocation state of the seven blocks
    indbuf, find, gind, hind,           \* frontier blocks and the pointers to them
    expbuf, fexp, gexp, hexp,           \* monomial blocks and the pointers to them
    fscore, gscore, hscore,
    maxdiff, maxind,
    e, e_score,                         \* the caller's result storage
    iters,                              \* main-loop bodies entered
    call, first                         \* which of two calls, the first call's score

vars == <<a, a_len, b, b_len, lower, upper, pc, heap, indbuf, find, gind, hind,
          expbuf, fexp, gexp, hexp, fscore, gscore, hscore, maxdiff, maxind,
          e, e_score, iters, call, first>>

args == <<a, a_len, b, b_len, lower, upper>>
harness == <<call, first>>

\* content of a word that was never written and not yet read
Indeterminate == 0 - 1

Garb == 0 .. GarbMax
Mono == 0 .. MaxExp

Min(x, y) == IF x < y THEN x ELSE y
Max(x, y) == IF x < y THEN y ELSE x

\* the values a read of word w can give
Vals(w) == IF w = Indeterminate THEN Garb ELSE {w}

IndBlocks == {"I1", "I2", "I3"}
ExpBlocks == {"E1", "E2", "E3"}
Blocks == IndBlocks \cup ExpBlocks \cup {"T"}

\* index range of a frontier array
Rows == 0 .. (a_len - 1)

\* packed monomial primitives of mpoly.h, on one-word monomials
mpoly_monomial_add(x, y) == x + y
mpoly_monomial_eq(x, y) == IF x = y THEN 1 ELSE 0
mpoly_monomial_lt(x, y) == x < y

\* strictly descending monomial sequences of length len, indexed from 0
Descending(len) ==
    { s \in [0 .. (len - 1) -> Mono] : \A i \in 0 .. (len - 2) : s[i] > s[i + 1] }

\* what a read of b + j*N can give: inside the array its element, outside any word
WordsB(j) == IF j \in 0 .. (b_len - 1) THEN {b[j]} ELSE Mono
\* b + j*N read in a step in which the words behind b hold bo
ReadB(j, bo) == IF j \in 0 .. (b_len - 1) THEN b[j] ELSE bo[j]

\* the largest index held in rows 0 .. a_len-1 of the three frontier arrays
RECURSIVE MaxCell(_, _)
MaxCell(mem, i) ==
    IF i < 0 THEN 0
    ELSE Max(Max(mem[find][i], MaxCell(mem, i - 1)), Max(mem[gind][i], mem[hind][i]))

\* the contents the words behind b can have, as far as an index of mem reaches
BehindB(mem) == [b_len .. MaxCell(mem, a_len - 1) -> Mono]

Locals0 ==
    /\ pc = "call"
    /\ heap = [blk \in Blocks |-> "none"]
    /\ indbuf = [blk \in IndBlocks |-> <<>>]
    /\ find = "null" /\ gind = "null" /\ hind = "null"
    /\ expbuf = [blk \in ExpBlocks |-> Indeterminate]
    /\ fexp = "null" /\ gexp = "null" /\ hexp = "null"
    /\ fscore = 0 /\ gscore = 0 /\ hscore = 0
    /\ maxdiff = 0 /\ maxind = 0
    /\ e = Indeterminate /\ e_score = 0
    /\ iters = 0

Init ==
    /\ a_len \in 1 .. MaxLen
    /\ b_len \in 1 .. MaxLen
    /\ a \in Descending(a_len)
    /\ b \in Descending(b_len)
    /\ lower \in 0 .. (a_len * b_len + 1)
    /\ upper \in lower .. (a_len * b_len + 1)
    /\ Locals0
    /\ call = 1 /\ first = 0

\* lines 48-75: the preconditions hold, f and g are set up, h is allocated
Setup ==
    /\ pc = "call"
    /\ a_len > 0 /\ b_len > 0 /\ lower <= upper
    /\ heap' = [blk \in Blocks |-> "live"]
    /\ fscore' = a_len * b_len
    /\ gscore' = 1
    /\ LET find0 == [i \in Rows |-> 0]
           \* lines 68-70 store g's frontier through find
           find1 == [i \in Rows |-> b_len]
           find2 == [find1 EXCEPT ![a_len - 1] = b_len - 1]
           fresh == [i \in Rows |-> Indeterminate]
       IN  indbuf' = [blk \in IndBlocks |-> IF blk = "I1" THEN find2 ELSE fresh]
    /\ find' = "I1" /\ gind' = "I2" /\ hind' = "I3"
    /\ LET f0 == mpoly_monomial_add(a[0], b[0])
           g0 == mpoly_monomial_add(a[a_len - 1], b[b_len - 1])
           \* lines 66-67 clear every word of gexp
           g1 == 0
       IN  expbuf' = [blk \in ExpBlocks |->
                        IF blk = "E1" THEN f0 ELSE IF blk = "E2" THEN g1 ELSE Indeterminate]
    /\ fexp' = "E1" /\ gexp' = "E2" /\ hexp' = "E3"
    /\ pc' = "early"
    /\ UNCHANGED <<args, hscore, maxdiff, maxind, e, e_score, iters, harness>>

\* EarlyExit copying g's monomial instead of f's
EarlyExit_CopiesG ==
    /\ pc = "early"
    /\ fscore = gscore
    /\ e' = expbuf[gexp]
    /\ e_score' = fscore
    /\ pc' = "returned"
    /\ UNCHANGED <<args, heap, indbuf, find, gind, hind, expbuf, fexp, gexp, hexp,
                   fscore, gscore, hscore, maxdiff, maxind, iters, harness>>

\* lines 78-83: early exit, returning without a free
EarlyExit ==
    /\ pc = "early"
    /\ fscore = gscore
    /\ e' = expbuf[fexp]
    /\ e_score' = fscore
    /\ pc' = "returned"
    /\ UNCHANGED <<args, heap, indbuf, find, gind, hind, expbuf, fexp, gexp, hexp,
                   fscore, gscore, hscore, maxdiff, maxind, iters, harness>>

\* line 78 false: on to the main loop
EnterMain ==
    /\ pc = "early"
    /\ fscore # gscore
    /\ pc' = "while"
    /\ UNCHANGED <<args, heap, indbuf, find, gind, hind, expbuf, fexp, gexp, hexp,
                   fscore, gscore, hscore, maxdiff, maxind, e, e_score, iters, harness>>

\* line 86
LoopCond == gscore < lower /\ upper < fscore

\* line 86 false: the loop ends
LoopExit ==
    /\ pc = "while"
    /\ ~LoopCond
    /\ pc' = "select"
    /\ UNCHANGED <<args, heap, indbuf, find, gind, hind, expbuf, fexp, gexp, hexp,
                   fscore, gscore, hscore, maxdiff, maxind, e, e_score, iters, harness>>

\* the ways the indeterminate words of an array can read
Resolved(buf) ==
    IF \A i \in Rows : buf[i] # Indeterminate THEN {buf}
    ELSE { [i \in Rows |-> IF buf[i] = Indeterminate THEN g[i] ELSE buf[i]] :
             g \in [Rows -> Garb] }

\* lines 89-98: the largest gind[i] - find[i]; line 96 stores -1, not i
RECURSIVE MaxdiffLoop(_, _, _, _)
MaxdiffLoop(i, md, mi, mem) ==
    IF i >= a_len THEN <<md, mi>>
    ELSE IF md < mem[gind][i] - mem[find][i]
         THEN MaxdiffLoop(i + 1, mem[gind][i] - mem[find][i], 0 - 1, mem)
         ELSE MaxdiffLoop(i + 1, md, mi, mem)

\* line 86 true, lines 88-98
FindMaxdiff ==
    /\ pc = "while"
    /\ LoopCond
    /\ iters < MaxIter
    /\ \E rg \in Resolved(indbuf[gind]) :
         LET m1 == [indbuf EXCEPT ![gind] = rg] IN
         \E rf \in Resolved(m1[find]) :
           LET m2 == [m1 EXCEPT ![find] = rf]
               r == MaxdiffLoop(0, 0 - 1, 0 - 1, m2)
           IN  /\ indbuf' = m2
               /\ maxdiff' = r[1]
               /\ maxind' = r[2]
    /\ iters' = iters + 1
    /\ pc' = "pivot"
    /\ UNCHANGED <<args, heap, find, gind, hind, expbuf, fexp, gexp, hexp,
                   fscore, gscore, hscore, e, e_score, harness>>

\* lines 100-103: f and g are the same path
SamePath ==
    /\ pc = "pivot"
    /\ maxdiff = 0
    /\ pc' = "select"
    /\ UNCHANGED <<args, heap, indbuf, find, gind, hind, expbuf, fexp, gexp, hexp,
                   fscore, gscore, hscore, maxdiff, maxind, e, e_score, iters, harness>>

\* lines 109-121: every row with gind[i] > find[i] whose cell differs from fexp
\* becomes the pivot in turn; st = [mem, ex, mi] is (index blocks, monomial blocks, maxind)
RECURSIVE GapScan(_, _, _)
GapScan(i, st, bo) ==
    IF i >= a_len THEN st
    ELSE IF st.mem[gind][i] > st.mem[find][i]
              /\ mpoly_monomial_eq(mpoly_monomial_add(a[i], ReadB(st.mem[find][i], bo)),
                                   st.ex[fexp]) = 0
         THEN LET m1 == [st.mem EXCEPT ![hind][i] = st.mem[find][i]]
                  x1 == [st.ex EXCEPT ![hexp] =
                            mpoly_monomial_add(a[i], ReadB(m1[hind][i], bo))]
              IN  GapScan(i + 1, [mem |-> m1, ex |-> x1, mi |-> i], bo)
         ELSE GapScan(i + 1, st, bo)

\* lines 105-125: gap of one; break when no row qualifies
ScanGapOne ==
    /\ pc = "pivot"
    /\ maxdiff = 1
    /\ \E bo \in BehindB(indbuf) :
         LET r == GapScan(0, [mem |-> indbuf, ex |-> expbuf, mi |-> 0 - 1], bo)
         IN  /\ indbuf' = r.mem
             /\ expbuf' = r.ex
             /\ maxind' = r.mi
             /\ pc' = IF r.mi = 0 - 1 THEN "select" ELSE "bisector"
    /\ UNCHANGED <<args, heap, find, gind, hind, fexp, gexp, hexp,
                   fscore, gscore, hscore, maxdiff, e, e_score, iters, harness>>

\* lines 126-130: hind[maxind] = (gind[maxind] + find[maxind])/2; with maxind
\* outside the array the store goes in front of the block
Bisect ==
    /\ pc = "pivot"
    /\ maxdiff # 0 /\ maxdiff # 1
    /\ IF maxind \in Rows
       THEN /\ indbuf' = [indbuf EXCEPT ![hind][maxind] =
                            (indbuf[gind][maxind] + indbuf[find][maxind]) \div 2]
            /\ pc' = "bisector"
       ELSE /\ indbuf' = indbuf
            /\ pc' = "undefined"
    /\ UNCHANGED <<args, heap, find, gind, hind, expbuf, fexp, gexp, hexp,
                   fscore, gscore, hscore, maxdiff, maxind, e, e_score, iters, harness>>

\* line 136: hexp = a[maxind] + b[hind[maxind]]
ComputeHexp ==
    /\ pc = "bisector"
    /\ \E y \in WordsB(indbuf[hind][maxind]) :
         expbuf' = [expbuf EXCEPT ![hexp] = mpoly_monomial_add(a[maxind], y)]
    /\ pc' = "assert"
    /\ UNCHANGED <<args, heap, indbuf, find, gind, hind, fexp, gexp, hexp,
                   fscore, gscore, hscore, maxdiff, maxind, e, e_score, iters, harness>>

\* lines 138-139
BisectorAsserts ==
    /\ mpoly_monomial_lt(expbuf[fexp], expbuf[hexp])
    /\ mpoly_monomial_lt(expbuf[hexp], expbuf[gexp])

\* lines 138-139 in a build with assertions: a false one aborts the process
AssertFail ==
    /\ pc = "assert"
    /\ ~BisectorAsserts
    /\ pc' = "aborted"
    /\ UNCHANGED <<args, heap, indbuf, find, gind, hind, expbuf, fexp, gexp, hexp,
                   fscore, gscore, hscore, maxdiff, maxind, e, e_score, iters, harness>>

\* lines 152-159: x after the downward scan of row i from column j to column lo
RECURSIVE ScanDown(_, _, _, _, _, _)
ScanDown(i, j, x, lo, h, bo) ==
    IF j < lo THEN x
    ELSE IF mpoly_monomial_lt(mpoly_monomial_add(a[i], ReadB(j, bo)), h)
         THEN ScanDown(i, j - 1, j + 1, lo, h, bo)
         ELSE x

\* lines 170-177: x after the upward scan of row i from column j to below column hi
RECURSIVE ScanUp(_, _, _, _, _, _)
ScanUp(i, j, x, hi, h, bo) ==
    IF j >= hi THEN x
    ELSE IF mpoly_monomial_lt(mpoly_monomial_add(a[i], ReadB(j, bo)), h)
         THEN ScanUp(i, j + 1, j + 1, hi, h, bo)
         ELSE x

\* lines 149-162: the rows after the pivot row; st = [mem, hs] is (index blocks, hscore)
RECURSIVE RightRows(_, _, _, _)
RightRows(i, st, h, bo) ==
    IF i >= a_len THEN st
    ELSE LET m == st.mem
             x == ScanDown(i, Min(m[hind][i - 1], m[gind][i]) - 1, m[find][i],
                           m[find][i], h, bo)
             m1 == [m EXCEPT ![hind][i] = x]
         IN  RightRows(i + 1, [mem |-> m1, hs |-> st.hs + m1[gind][i] - m1[hind][i]], h, bo)

\* lines 167-180: the rows before the pivot row
RECURSIVE LeftRows(_, _, _, _)
LeftRows(i, st, h, bo) ==
    IF i < 0 THEN st
    ELSE LET m == st.mem
             x0 == Max(m[hind][i + 1], m[find][i])
             x == ScanUp(i, x0, x0, m[gind][i], h, bo)
             m1 == [m EXCEPT ![hind][i] = x]
         IN  LeftRows(i - 1, [mem |-> m1, hs |-> st.hs + m1[gind][i] - m1[hind][i]], h, bo)

\* lines 141-180, reached when the assertions hold or are compiled out
NewPath ==
    /\ pc = "assert"
    /\ \E bo \in BehindB(indbuf) :
         LET s0 == [mem |-> indbuf,
                    hs |-> gscore + indbuf[gind][maxind] - indbuf[hind][maxind]]
             s1 == RightRows(maxind + 1, s0, expbuf[hexp], bo)
             s2 == LeftRows(maxind - 1, s1, expbuf[hexp], bo)
         IN  /\ indbuf' = s2.mem
             /\ hscore' = s2.hs
    /\ pc' = "swap"
    /\ UNCHANGED <<args, heap, find, gind, hind, expbuf, fexp, gexp, hexp,
                   fscore, gscore, maxdiff, maxind, e, e_score, iters, harness>>

\* lines 183-187: h and g change places
UpdateG ==
    /\ pc = "swap"
    /\ hscore <= upper
    /\ gind' = hind /\ gscore' = hscore /\ gexp' = hexp
    /\ hind' = gind /\ hscore' = gscore /\ hexp' = gexp
    /\ pc' = "while"
    /\ UNCHANGED <<args, heap, indbuf, find, expbuf, fexp, fscore,
                   maxdiff, maxind, e, e_score, iters, harness>>

\* lines 188-192: f takes h; t was loaded from g, so h takes g
UpdateF ==
    /\ pc = "swap"
    /\ ~(hscore <= upper)
    /\ find' = hind /\ fscore' = hscore /\ fexp' = hexp
    /\ hind' = gind /\ hscore' = gscore /\ hexp' = gexp
    /\ pc' = "while"
    /\ UNCHANGED <<args, heap, indbuf, gind, expbuf, gexp, gscore,
                   maxdiff, maxind, e, e_score, iters, harness>>

\* Select with the last comparison turned round: the farther candidate wins
Select_Farther(fs, gs, lo, up) ==
    IF fs <= lo THEN "F"
    ELSE IF gs >= up THEN "G"
    ELSE IF fs <= up THEN "F"
    ELSE IF gs >= lo THEN "G"
    ELSE IF fs - up > lo - gs THEN "F"
    ELSE "G"

\* Select with <= in the last comparison: a tie goes to f
Select_TieF(fs, gs, lo, up) ==
    IF fs <= lo THEN "F"
    ELSE IF gs >= up THEN "G"
    ELSE IF fs <= up THEN "F"
    ELSE IF gs >= lo THEN "G"
    ELSE IF fs - up <= lo - gs THEN "F"
    ELSE "G"

\* lines 195-221: which candidate is returned
Select(fs, gs, lo, up) ==
    IF fs <= lo THEN "F"
    ELSE IF gs >= up THEN "G"
    ELSE IF fs <= up THEN "F"
    ELSE IF gs >= lo THEN "G"
    ELSE IF fs - up < lo - gs THEN "F"
    ELSE "G"

\* flint_free of one block
Free(hp, blk) == [hp EXCEPT ![blk] = IF @ = "live" THEN "freed" ELSE "double-freed"]

\* lines 223-229
FreeAll(hp) ==
    Free(Free(Free(Free(Free(Free(Free(hp, "T"), hind), hexp), gind), gexp), find), fexp)

\* some block is freed twice by lines 223-229
DoubleFree == \E blk \in Blocks : FreeAll(heap)[blk] = "double-freed"

\* lines 195-229: final selection, the frees, return
FinalSelect ==
    /\ pc = "select"
    /\ LET w == Select(fscore, gscore, lower, upper)
       IN  /\ e' = IF w = "F" THEN expbuf[fexp] ELSE expbuf[gexp]
           /\ e_score' = IF w = "F" THEN fscore ELSE gscore
    /\ heap' = FreeAll(heap)
    /\ pc' = IF DoubleFree THEN "undefined" ELSE "returned"
    /\ UNCHANGED <<args, indbuf, find, gind, hind, expbuf, fexp, gexp, hexp,
                   fscore, gscore, hscore, maxdiff, maxind, iters, harness>>

\* a second call with the roles of a and b exchanged
SwapCall ==
    /\ pc = "returned"
    /\ call = 1
    /\ a' = b /\ a_len' = b_len /\ b' = a /\ b_len' = a_len
    /\ call' = 2
    /\ first' = e_score
    /\ pc' = "call"
    /\ heap' = [blk \in Blocks |-> "none"]
    /\ indbuf' = [blk \in IndBlocks |-> <<>>]
    /\ find' = "null" /\ gind' = "null" /\ hind' = "null"
    /\ expbuf' = [blk \in ExpBlocks |-> Indeterminate]
    /\ fexp' = "null" /\ gexp' = "null" /\ hexp' = "null"
    /\ fscore' = 0 /\ gscore' = 0 /\ hscore' = 0
    /\ maxdiff' = 0 /\ maxind' = 0
    /\ e' = Indeterminate /\ e_score' = 0
    /\ iters' = 0
    /\ UNCHANGED <<lower, upper>>

Next ==
    \/ Setup
    \/ EarlyExit
    \/ EnterMain
    \/ LoopExit
    \/ FindMaxdiff
    \/ SamePath
    \/ ScanGapOne
    \/ Bisect
    \/ ComputeHexp
    \/ AssertFail
    \/ NewPath
    \/ UpdateG
    \/ UpdateF
    \/ FinalSelect

Spec == Init /\ [][Next]_vars

NextSwap == Next \/ SwapCall

SpecSwap == Init /\ [][NextSwap]_vars

(***************************************************************************)
(* What the claims speak of                                                *)
(***************************************************************************)

Cols == 0 .. (b_len - 1)

\* the number of cells of the product matrix that are <= m
Score(m) == Cardinality({ c \in Rows \X Cols : a[c[1]] + b[c[2]] <= m })

\* the smallest column j of row i with a[i] + b[j] <= m, b_len if there is none
Frontier(i, m) ==
    IF \E j \in Cols : a[i] + b[j] <= m
    THEN CHOOSE j \in Cols : a[i] + b[j] <= m /\ \A k \in 0 .. (j - 1) : a[i] + b[k] > m
    ELSE b_len

RECURSIVE RowSum(_, _)
RowSum(buf, i) == IF i < 0 THEN 0 ELSE (b_len - buf[i]) + RowSum(buf, i - 1)

\* distance of a score from [lower, upper]
Dist(s) == Max(0, s - upper) + Max(0, lower - s)

Gap(i) == indbuf[gind][i] - indbuf[find][i]

\* C1: when some cell sum has its score in [lower, upper], the returned score
\* lies in [lower, upper]
C1_RangeRespecting ==
    (pc = "returned" /\ \E c \in Rows \X Cols : Score(a[c[1]] + b[c[2]]) \in lower .. upper)
        => (lower <= e_score /\ e_score <= upper)

\* C2: once the main loop has ended, the result is f's or g's score with that
\* candidate's monomial, and no score of the two is closer to [lower, upper]
C2_ClosestFit ==
    pc = "returned" =>
        /\ \/ e_score = fscore /\ e = expbuf[fexp]
           \/ e_score = gscore /\ e = expbuf[gexp]
        /\ Dist(e_score) <= Dist(fscore)
        /\ Dist(e_score) <= Dist(gscore)

\* a call that went round the loop and returned f as the strictly closer candidate
C2_Witness ==
    /\ pc = "returned" /\ iters > 0
    /\ gscore < lower /\ upper < fscore
    /\ Dist(fscore) < Dist(gscore)
    /\ e_score = fscore

\* the final selection was reached with both candidates out of range, equally far
TieAtSelection ==
    /\ pc = "returned" /\ heap["T"] = "freed"
    /\ gscore < lower /\ upper < fscore
    /\ fscore - upper = lower - gscore

\* C3 as stated: on a tie between two out-of-range candidates f is returned
C3_TieReturnsF == TieAtSelection => (e_score = fscore /\ e = expbuf[fexp])

\* C3 amended: on a tie between two out-of-range candidates g is returned
C3_TieReturnsG == TieAtSelection => (e_score = gscore /\ e = expbuf[gexp])

C3_Witness == TieAtSelection /\ e_score = gscore /\ fscore # gscore

\* C4: when the largest and the smallest cell sum are equal the call returns that
\* monomial with score a_len*b_len and never enters the loop body
C4_DegenerateEquality ==
    (pc = "returned" /\ a[0] + b[0] = a[a_len - 1] + b[b_len - 1])
        => (e = a[0] + b[0] /\ e_score = a_len * b_len /\ iters = 0)

C4_Witness ==
    /\ pc = "returned" /\ a_len = 1 /\ b_len = 1
    /\ a[0] + b[0] > 0 /\ e = a[0] + b[0] /\ e_score = 1

\* C5: in every returned state each of the seven blocks has been freed exactly once
C5_ScratchReleased ==
    pc = "returned" => \A blk \in Blocks : heap[blk] = "freed"

\* C6: a computed candidate h lies strictly between g and f, in score and in monomial
C6_StrictShrink ==
    pc = "swap" =>
        /\ gscore < hscore /\ hscore < fscore
        /\ expbuf[gexp] < expbuf[hexp] /\ expbuf[hexp] < expbuf[fexp]

\* C7: the call with a and b exchanged returns the score of the first call
C7_SwapSameScore ==
    (pc = "returned" /\ call = 2) => e_score = first

\* candidate (ind, ex, sc) is consistent: its frontier is the true frontier of its
\* monomial and its score is the row sum and the number of cells below the monomial
Consistent(ind, ex, sc) ==
    /\ \A i \in Rows : indbuf[ind][i] = Frontier(i, expbuf[ex])
    /\ sc = RowSum(indbuf[ind], a_len - 1)
    /\ sc = Score(expbuf[ex])

\* C8: at every evaluation of the loop condition f and g are consistent, and at the
\* first one they are the largest and the smallest cell with their frontiers
C8_CandidatesConsistent ==
    pc = "while" =>
        /\ Consistent(find, fexp, fscore)
        /\ Consistent(gind, gexp, gscore)
        /\ iters = 0 =>
             /\ expbuf[fexp] = a[0] + b[0] /\ fscore = a_len * b_len
             /\ \A i \in Rows : indbuf[find][i] = 0
             /\ expbuf[gexp] = a[a_len - 1] + b[b_len - 1] /\ gscore = 1
             /\ \A i \in Rows : indbuf[gind][i] = IF i = a_len - 1 THEN b_len - 1 ELSE b_len

\* C9: the pivot row is the first row of largest gap; with a gap of two or more the
\* pivot column is the midpoint, strictly inside the row's interval, and the
\* candidate is that cell; with a gap of zero the loop ends
C9_PivotSelection ==
    /\ pc = "pivot" =>
         /\ maxind \in Rows
         /\ \A i \in Rows : Gap(i) <= Gap(maxind)
         /\ \A i \in 0 .. (maxind - 1) : Gap(i) < Gap(maxind)
         /\ maxdiff = Gap(maxind)
    /\ (pc \in {"bisector", "assert"} /\ maxdiff >= 2) =>
         /\ maxind \in Rows
         /\ indbuf[hind][maxind] = (indbuf[gind][maxind] + indbuf[find][maxind]) \div 2
         /\ indbuf[find][maxind] < indbuf[hind][maxind]
         /\ indbuf[hind][maxind] < indbuf[gind][maxind]
    /\ (pc = "assert" /\ maxdiff >= 2) =>
         /\ indbuf[hind][maxind] \in Cols
         /\ expbuf[hexp] = a[maxind] + b[indbuf[hind][maxind]]
    /\ pc \in {"bisector", "assert", "swap"} => maxdiff # 0

\* C10: a bracket update moves h into exactly one of g and f, leaves the other as
\* it was, and leaves the three slots on three different blocks
C10_BracketUpdate ==
    [][pc = "swap" =>
        /\ IF hscore <= upper
           THEN /\ indbuf'[gind'] = indbuf[hind] /\ expbuf'[gexp'] = expbuf[hexp]
                /\ gscore' = hscore
                /\ indbuf'[find'] = indbuf[find] /\ expbuf'[fexp'] = expbuf[fexp]
                /\ fscore' = fscore
           ELSE /\ indbuf'[find'] = indbuf[hind] /\ expbuf'[fexp'] = expbuf[hexp]
                /\ fscore' = hscore
                /\ indbuf'[gind'] = indbuf[gind] /\ expbuf'[gexp'] = expbuf[gexp]
                /\ gscore' = gscore
        /\ Cardinality({find', gind', hind'}) = 3
        /\ Cardinality({fexp', gexp', hexp'}) = 3]_vars
====
